---------------------------- MODULE Spec2Model ----------------------------
(* A model of the portrayal plugin (src/main.py): the paginated history     *)
(* fetch with its retry loop, the context builder, the LLM retry loop and   *)
(* the command handler that runs them in sequence.                          *)
(*                                                                          *)
(* Python strings are sequences of one-character strings; a dict key that   *)
(* may be missing is a has_* flag beside the value; an exception raised by  *)
(* a pure function is the result record's "raised" field.                   *)
EXTENDS Integers, Sequences, FiniteSets, TLC

----------------------------------------------------------------------------
(* Bounds of the model *)

\* largest max_query_rounds value handed to get_msg_contexts
MaxRoundsBound == 3
\* largest explicit max_msg_count of the configuration
MaxTargetCount == 2
\* longest page given to _build_user_context on its own
MaxPageLen == 2
\* largest explicit llm_max_retries of the configuration
MaxLlmRetries == 3

\* the longest text, in words, given to _has_api_error_pattern on its own
MaxTextLen == 3

----------------------------------------------------------------------------
(* Program constants *)

MAX_RETRIES == 3
BASE_DELAY == 1
DefaultMaxMsgCount == 500
DefaultPerMsgCount == 200

----------------------------------------------------------------------------
(* Strings *)

Whitespace == {" "}

RECURSIVE lstrip(_)
lstrip(s) ==
    IF s # <<>> /\ Head(s) \in Whitespace THEN lstrip(Tail(s)) ELSE s

RECURSIVE rstrip(_)
rstrip(s) ==
    IF s # <<>> /\ s[Len(s)] \in Whitespace
    THEN rstrip(SubSeq(s, 1, Len(s) - 1))
    ELSE s

\* str.strip()
strip(s) == rstrip(lstrip(s))

\* "".join(list of strings)
RECURSIVE join(_)
join(ss) == IF ss = <<>> THEN <<>> ELSE Head(ss) \o join(Tail(ss))

DigitChars == {"0", "1", "2", "3", "4", "5", "6", "7", "8", "9"}

DigitVal(c) ==
    CASE c = "0" -> 0 [] c = "1" -> 1 [] c = "2" -> 2 [] c = "3" -> 3
      [] c = "4" -> 4 [] c = "5" -> 5 [] c = "6" -> 6 [] c = "7" -> 7
      [] c = "8" -> 8 [] c = "9" -> 9

RECURSIVE DecimalValue(_)
DecimalValue(s) ==
    IF s = <<>> THEN 0
    ELSE 10 * DecimalValue(SubSeq(s, 1, Len(s) - 1)) + DigitVal(s[Len(s)])

\* int(str) for an unsigned literal: raises ValueError unless the string is a
\* non-empty run of decimal digits
int(s) ==
    IF s # <<>> /\ \A k \in 1..Len(s) : s[k] \in DigitChars
    THEN [raised |-> FALSE, value |-> DecimalValue(s)]
    ELSE [raised |-> TRUE, value |-> 0]

\* max(a, b) and min(a, b)
Max(a, b) == IF a >= b THEN a ELSE b
Min(a, b) == IF a <= b THEN a ELSE b

\* 2 ** n
RECURSIVE Pow2(_)
Pow2(n) == IF n = 0 THEN 1 ELSE 2 * Pow2(n - 1)

----------------------------------------------------------------------------
(* Messages of the gateway *)

\* sender.user_id of a message that has no sender (dict.get gives None)
NoUser == -1

TextSeg(t) == [type |-> "text", has_type |-> TRUE, has_text |-> TRUE, text |-> t]
ImageSeg == [type |-> "image", has_type |-> TRUE, has_text |-> FALSE, text |-> <<>>]
AtSeg == [type |-> "at", has_type |-> TRUE, has_text |-> FALSE, text |-> <<>>]
\* a segment without its "type" key
NoTypeSeg == [type |-> "", has_type |-> FALSE, has_text |-> TRUE, text |-> <<"a">>]
\* a text segment without data.text
NoDataSeg == [type |-> "text", has_type |-> TRUE, has_text |-> FALSE, text |-> <<>>]

Msg(uid, mid, segs, ts) ==
    [user_id |-> uid, has_message_id |-> TRUE, message_id |-> mid,
     has_message |-> TRUE, message |-> segs, time |-> ts]

\* a message without its "message_id" key
NoIdMsg(uid, segs, ts) ==
    [user_id |-> uid, has_message_id |-> FALSE, message_id |-> 0,
     has_message |-> TRUE, message |-> segs, time |-> ts]

\* a message without its "message" key (no content-segment list)
NoContentMsg(uid, mid, ts) ==
    [user_id |-> uid, has_message_id |-> TRUE, message_id |-> mid,
     has_message |-> FALSE, message |-> <<>>, time |-> ts]

\* datetime.fromtimestamp(ts).strftime("%Y-%m-%d %H:%M")
strftime(ts) == IF ts = 1 THEN <<"D", "1">> ELSE <<"D", "2">>

----------------------------------------------------------------------------
(* _build_user_context *)

\* [seg["data"]["text"] for seg in msg["message"] if seg["type"] == "text"]
RECURSIVE text_segments(_)
text_segments(segs) ==
    IF segs = <<>> THEN [raised |-> FALSE, value |-> <<>>]
    ELSE LET seg == Head(segs)
             rest == text_segments(Tail(segs))
         IN  IF ~seg.has_type THEN [raised |-> TRUE, value |-> <<>>]
             ELSE IF seg.type # "text" THEN rest
             ELSE IF ~seg.has_text THEN [raised |-> TRUE, value |-> <<>>]
             ELSE IF rest.raised THEN rest
             ELSE [raised |-> FALSE, value |-> <<seg.text>> \o rest.value]

\* the prefix f"[{dt_str}] "
TimestampPrefix(ts) == <<"[">> \o strftime(ts) \o <<"]", " ">>

\* a loop body without the test of the sender
BuildOneAnySender(msg, target_int_id) ==
    IF ~msg.has_message THEN [raised |-> TRUE, value |-> <<>>]
    ELSE LET segs == text_segments(msg.message)
             stripped == strip(join(segs.value))
             text == IF msg.time # 0
                     THEN TimestampPrefix(msg.time) \o stripped
                     ELSE stripped
         IN  IF segs.raised THEN [raised |-> TRUE, value |-> <<>>]
             ELSE IF text # <<>>
             THEN [raised |-> FALSE,
                   value |-> <<[role |-> "user", content |-> text]>>]
             ELSE [raised |-> FALSE, value |-> <<>>]

\* the body of the loop for one message: the turns it adds (none or one), or
\* the exception it raises
BuildOne(msg, target_int_id) ==
    IF msg.user_id # target_int_id THEN [raised |-> FALSE, value |-> <<>>]
    ELSE IF ~msg.has_message THEN [raised |-> TRUE, value |-> <<>>]
    ELSE LET segs == text_segments(msg.message)
             stripped == strip(join(segs.value))
             text == IF msg.time # 0
                     THEN TimestampPrefix(msg.time) \o stripped
                     ELSE stripped
         IN  IF segs.raised THEN [raised |-> TRUE, value |-> <<>>]
             ELSE IF text # <<>>
             THEN [raised |-> FALSE,
                   value |-> <<[role |-> "user", content |-> text]>>]
             ELSE [raised |-> FALSE, value |-> <<>>]

RECURSIVE BuildLoop(_, _)
BuildLoop(round_messages, target_int_id) ==
    IF round_messages = <<>> THEN [raised |-> FALSE, value |-> <<>>]
    ELSE LET one == BuildOne(Head(round_messages), target_int_id)
             rest == BuildLoop(Tail(round_messages), target_int_id)
         IN  IF one.raised THEN one
             ELSE IF rest.raised THEN rest
             ELSE [raised |-> FALSE, value |-> one.value \o rest.value]

\* _build_user_context(round_messages, target_id): the list of turns, or the
\* exception that int(target_id) or a message of the page raises
_build_user_context(round_messages, target_id) ==
    LET target_int_id == int(target_id)
    IN  IF target_int_id.raised THEN [raised |-> TRUE, value |-> <<>>]
        ELSE BuildLoop(round_messages, target_int_id.value)


----------------------------------------------------------------------------
(* State *)

VARIABLES
    conf,     \* self.conf, the configuration object shared by all invocations
    frames    \* the local variables of each invocation of the command

vars == <<conf, frames>>

Invocations == {1, 2}

\* conf.get(key, default)
ConfGet(key, default) == IF key \in DOMAIN conf THEN conf[key] ELSE default

\* the configuration restricted to the options in keys
ConfOf(full, keys) == [k \in keys |-> full[k]]

\* one event of the history kept for the page being fetched
CallEvent(payloads) ==
    [op |-> "call", message_seq |-> payloads.message_seq,
     count |-> payloads.count, delay |-> 0]
SleepEvent(d) == [op |-> "sleep", message_seq |-> 0, count |-> 0, delay |-> d]

\* the frame of an invocation that has not started
IdleFrame ==
    [pc |-> "idle",
     target_id |-> <<>>,
     max_query_rounds |-> 0,
     \* locals of get_msg_contexts
     query_rounds |-> 0,
     message_seq |-> 0,
     contexts |-> <<>>,
     target_count |-> 0,
     per_count |-> 0,
     payloads |-> [message_seq |-> 0, count |-> 0],
     attempt |-> 0,
     round_messages |-> <<>>,
     \* the value _build_user_context returned, when it is run on its own
     built |-> [raised |-> FALSE, value |-> <<>>],
     \* locals of get_llm_respond
     max_retries |-> 0,
     retry_delay |-> 0,
     llm_attempt |-> 0,
     llm_respond |-> [is_none |-> TRUE, text |-> <<>>],
     llm_trace |-> <<>>,
     \* the event and the locals of get_portrayal and get_target_info
     event |-> [platform |-> "", group_id |-> <<>>, self_id |-> <<>>,
                ats |-> <<>>, sender_id |-> <<>>, end_parm |-> <<>>],
     member_info |-> [card |-> <<>>, nickname |-> <<>>, sex |-> <<>>],
     user_info |-> [nickname |-> <<>>, gender |-> <<>>],
     \* what the handler has yielded to the user, in order
     replies |-> <<>>,
     \* history of the run, read by the properties only
     failed_stage |-> "",
     fetched |-> FALSE,
     render_requests |-> 0,
     render_outcome |-> "",
     all_full |-> TRUE,
     text |-> [is_none |-> TRUE, text |-> <<>>],
     is_error |-> FALSE,
     stranger_info |-> [card |-> <<>>, nickname |-> <<>>, sex |-> <<>>],
     member_failed |-> FALSE,
     stranger_failed |-> FALSE,
     lookups |-> 0,
     page_trace |-> <<>>,
     requested |-> <<>>,
     rpc_calls |-> 0,
     rpc_failures |-> 0]

Set(i, f) == frames' = [frames EXCEPT ![i] = f]

----------------------------------------------------------------------------
(* The history RPC: get_group_msg_history *)

TargetUid == 1
OtherUid == 2
\* the message identifiers the gateway hands out
MsgIds == {1, 2}

\* the text of the message with identifier mid
IdText(mid) == IF mid = 1 THEN <<"a">> ELSE IF mid = 2 THEN <<"b">> ELSE <<"c">>

\* the pages the gateway may answer a history request with
HistoryPages ==
    {<<>>}
    \cup {<<Msg(TargetUid, mid, <<TextSeg(IdText(mid))>>, 0)>> : mid \in MsgIds}
    \cup {<<Msg(OtherUid, 1, <<TextSeg(IdText(1))>>, 0)>>}
    \cup {[k \in 1..MaxPageLen |->
               Msg(TargetUid, k, <<TextSeg(IdText(k))>>, 0)]}
    \cup {<<NoIdMsg(TargetUid, <<TextSeg(IdText(1))>>, 0)>>}
    \cup {<<NoContentMsg(TargetUid, 1, 0)>>}

\* what one call of the RPC does: it throws, or it returns a dict with or
\* without the "messages" key
RpcResponses ==
    {[kind |-> "throw", has_messages |-> FALSE, messages |-> <<>>],
     [kind |-> "ok", has_messages |-> FALSE, messages |-> <<>>]}
    \cup {[kind |-> "ok", has_messages |-> TRUE, messages |-> p] :
            p \in HistoryPages}

----------------------------------------------------------------------------
(* get_msg_contexts *)

\* lines 285-293: the locals before the loop
GetMsgContextsEnter(i) ==
    /\ frames[i].pc = "fetch_enter"
    /\ Set(i, [frames[i] EXCEPT
           !.query_rounds = 0,
           !.message_seq = 0,
           !.contexts = <<>>,
           !.target_count = ConfGet("max_msg_count", DefaultMaxMsgCount),
           !.per_count = ConfGet("per_msg_count", DefaultPerMsgCount),
           !.pc = "fetch_while"])
    /\ UNCHANGED conf

\* a loop test that lets one more page through
WhileConditionInclusive(f) == Len(f.contexts) <= f.target_count

\* the loop test of `while len(contexts) < target_count`
WhileCondition(f) == Len(f.contexts) < f.target_count

\* a cursor kept in one place for all invocations: that of the first
CursorOfFirst(i) == frames[1].message_seq

\* message_seq, a local variable of the invocation
CursorOf(i) == frames[i].message_seq

\* lines 295-302: the loop test, then the payload of this page
FetchWhile(i) ==
    /\ frames[i].pc = "fetch_while"
    /\ LET f == frames[i]
           payloads == [message_seq |-> CursorOf(i), count |-> f.per_count]
       IN  IF WhileCondition(f)
           THEN Set(i, [f EXCEPT
                    !.payloads = payloads,
                    !.round_messages = <<>>,
                    !.attempt = 0,
                    !.page_trace = <<>>,
                    !.requested = Append(@, payloads.message_seq),
                    !.pc = "fetch_call"])
           ELSE Set(i, [f EXCEPT !.pc = "fetch_return"])
    /\ UNCHANGED conf

\* a delay schedule that starts one doubling late
RetryDelayShifted(attempt) == BASE_DELAY * Pow2(attempt + 1)

\* BASE_DELAY * (2 ** attempt)
RetryDelay(attempt) == BASE_DELAY * Pow2(attempt)

\* a retry test that lets a fourth attempt through
HasNextAttemptOffByOne(attempt) == attempt < MAX_RETRIES

\* whether a failed attempt is followed by another one
HasNextAttempt(attempt) == attempt < MAX_RETRIES - 1

\* a message of the user uid with an identifier and a non-empty text
TargetText(m, uid) ==
    /\ m.user_id = uid
    /\ m.has_message_id
    /\ m.has_message
    /\ ~text_segments(m.message).raised
    /\ strip(join(text_segments(m.message).value)) # <<>>

\* an answer of the RPC that is a page of payloads.count messages, each a
\* non-empty text of the target user
FullPage(r, payloads, target_id) ==
    /\ r.kind = "ok"
    /\ r.has_messages
    /\ Len(r.messages) = payloads.count
    /\ \A k \in DOMAIN r.messages :
          TargetText(r.messages[k], int(target_id).value)

\* lines 304-313: one attempt of the call; the RPC answers from responses
FetchCallWith(i, responses) ==
    /\ frames[i].pc = "fetch_call"
    /\ \E r \in responses :
         LET f == [frames[i] EXCEPT
                      !.page_trace = Append(@, CallEvent(frames[i].payloads)),
                      !.all_full = @ /\ FullPage(r, frames[i].payloads,
                                                 frames[i].target_id),
                      !.rpc_calls = @ + 1]
         IN  IF r.kind = "ok"
             THEN Set(i, [f EXCEPT
                      !.round_messages =
                          IF r.has_messages THEN r.messages ELSE <<>>,
                      !.pc = "fetch_page"])
             ELSE IF HasNextAttempt(f.attempt)
             THEN Set(i, [f EXCEPT !.rpc_failures = @ + 1,
                                   !.pc = "fetch_sleep"])
             ELSE Set(i, [f EXCEPT !.rpc_failures = @ + 1,
                                   !.pc = "fetch_page"])
    /\ UNCHANGED conf

FetchCall(i) == FetchCallWith(i, RpcResponses)

\* line 311: the wait before the next attempt
FetchSleep(i) ==
    /\ frames[i].pc = "fetch_sleep"
    /\ LET f == frames[i]
       IN  Set(i, [f EXCEPT
               !.page_trace = Append(@, SleepEvent(RetryDelay(f.attempt))),
               !.attempt = @ + 1,
               !.pc = "fetch_call"])
    /\ UNCHANGED conf

\* `if query_rounds >= max_query_rounds: break`
RoundsExhausted(query_rounds, max_query_rounds) ==
    query_rounds >= max_query_rounds

\* a loop that goes on to the next page after a page that is missing
AfterMissingPageContinue == "fetch_while"

\* `if not round_messages: break`: where the loop goes after a page that is
\* missing
AfterMissingPage == "fetch_return"

\* lines 315-326: the page after the attempts
FetchPage(i) ==
    /\ frames[i].pc = "fetch_page"
    /\ LET f == frames[i]
           built == _build_user_context(f.round_messages, f.target_id)
       IN  \/ /\ f.round_messages = <<>>
              /\ Set(i, [f EXCEPT !.pc = AfterMissingPage])
           \/ /\ f.round_messages # <<>>
              /\ ~f.round_messages[1].has_message_id
              /\ Set(i, [f EXCEPT !.pc = "fetch_return"])
           \/ /\ f.round_messages # <<>>
              /\ f.round_messages[1].has_message_id
              /\ built.raised
              /\ Set(i, [f EXCEPT
                     !.message_seq = f.round_messages[1].message_id,
                     !.pc = "fetch_raised"])
           \/ /\ f.round_messages # <<>>
              /\ f.round_messages[1].has_message_id
              /\ ~built.raised
              /\ Set(i, [f EXCEPT
                     !.message_seq = f.round_messages[1].message_id,
                     !.contexts = @ \o built.value,
                     !.query_rounds = @ + 1,
                     !.pc = IF RoundsExhausted(f.query_rounds + 1,
                                               f.max_query_rounds)
                            THEN "fetch_return" ELSE "fetch_while"])
    /\ UNCHANGED conf

FetchDone(i) == frames[i].pc \in {"fetch_return", "fetch_raised"}

----------------------------------------------------------------------------
(* get_msg_contexts on its own: every configuration, every max_query_rounds *)

\* the configurations: the defaults, or an explicit target count and page size
FetchConfs ==
    {ConfOf([max_msg_count |-> 0, per_msg_count |-> 0], {})}
    \cup {[max_msg_count |-> t, per_msg_count |-> 1] : t \in 0..MaxTargetCount}
    \cup {[max_msg_count |-> 2 * MaxPageLen + 1, per_msg_count |-> MaxPageLen]}

FetchEntryFrame(target_id, max_query_rounds) ==
    [IdleFrame EXCEPT !.pc = "fetch_enter",
                      !.target_id = target_id,
                      !.max_query_rounds = max_query_rounds]

InitFetch ==
    /\ conf \in FetchConfs
    /\ \E m \in 0..MaxRoundsBound :
         frames = [i \in Invocations |->
                     IF i = 1 THEN FetchEntryFrame(<<"1">>, m) ELSE IdleFrame]

NextFetch ==
    \E i \in Invocations :
       \/ GetMsgContextsEnter(i)
       \/ FetchWhile(i)
       \/ FetchCall(i)
       \/ FetchSleep(i)
       \/ FetchPage(i)

SpecFetch == InitFetch /\ [][NextFetch]_vars

\* the event loop runs a coroutine that can take a step
FairSpecFetch == SpecFetch /\ WF_vars(NextFetch)

----------------------------------------------------------------------------
(* _build_user_context on its own: every page of at most MaxPageLen messages *)

\* the content-segment lists of the messages given to the builder
BuildContents ==
    {<<>>,
     <<TextSeg(<<"a">>)>>,
     <<TextSeg(<<" ">>)>>,
     <<ImageSeg>>,
     <<AtSeg, ImageSeg>>,
     <<TextSeg(<<" ", "a">>), ImageSeg, TextSeg(<<"b", " ">>)>>,
     <<ImageSeg, NoTypeSeg>>,
     <<NoDataSeg>>}

BuildMessages ==
    {Msg(uid, 1, segs, ts) :
        uid \in {TargetUid, OtherUid}, segs \in BuildContents, ts \in {0, 1}}
    \cup {NoContentMsg(uid, 1, 0) : uid \in {TargetUid, OtherUid}}
    \cup {Msg(NoUser, 1, <<TextSeg(<<"a">>)>>, 0)}

\* all sequences over S of length at most n
RECURSIVE SeqsUpTo(_, _)
SeqsUpTo(S, n) ==
    IF n = 0 THEN {<<>>}
    ELSE LET shorter == SeqsUpTo(S, n - 1)
         IN  shorter \cup {Append(q, x) : q \in shorter, x \in S}

BuildPages == SeqsUpTo(BuildMessages, MaxPageLen)

BuildEntryFrame(round_messages, target_id) ==
    [IdleFrame EXCEPT !.pc = "build_enter",
                      !.round_messages = round_messages,
                      !.target_id = target_id]

\* the target ids given to the builder
BuildTargets == {<<"1">>, <<"2">>}

InitBuild ==
    /\ conf = <<>>
    /\ \E page \in BuildPages, target_id \in BuildTargets :
         frames = [i \in Invocations |->
                     IF i = 1 THEN BuildEntryFrame(page, target_id)
                     ELSE IdleFrame]

\* lines 258-279: one call of the builder
BuildCall(i) ==
    /\ frames[i].pc = "build_enter"
    /\ Set(i, [frames[i] EXCEPT
           !.built = _build_user_context(frames[i].round_messages,
                                         frames[i].target_id),
           !.pc = "build_return"])
    /\ UNCHANGED conf

NextBuild == \E i \in Invocations : BuildCall(i)

SpecBuild == InitBuild /\ [][NextBuild]_vars

----------------------------------------------------------------------------
(* Properties of get_msg_contexts *)

\* the calls of the RPC made for the page being fetched
PageCalls(f) == Cardinality({k \in DOMAIN f.page_trace : f.page_trace[k].op = "call"})

\* C1: the number of rounds get_msg_contexts has used (and returns) never
\* exceeds the max_query_rounds it was given, 0 included.
C1_RoundsWithinMax ==
    \A i \in Invocations : frames[i].query_rounds <= frames[i].max_query_rounds

\* C2: get_msg_contexts ends, whatever the RPC answers: it never makes more
\* than 3 calls for one page nor more than 3 calls per allowed round in all
\* (one round at least), and every run reaches its return or raises.
C2_FetchTerminates ==
    /\ [](\A i \in Invocations :
            /\ PageCalls(frames[i]) <= 3
            /\ frames[i].rpc_calls <= 3 * Max(1, frames[i].max_query_rounds))
    /\ <>(\A i \in Invocations : frames[i].pc = "idle" \/ FetchDone(i))

\* a run that two pages without a message of the target user have ended
C2_Witness ==
    \E i \in Invocations :
       /\ frames[i].pc = "fetch_return"
       /\ frames[i].contexts = <<>>
       /\ frames[i].query_rounds = 2
       /\ frames[i].rpc_failures > 0

\* what a page's three failed attempts leave in the history
FailedPageTrace(payloads) ==
    <<CallEvent(payloads), SleepEvent(1), CallEvent(payloads), SleepEvent(2),
      CallEvent(payloads)>>

IsPrefix(s, t) == Len(s) <= Len(t) /\ s = SubSeq(t, 1, Len(s))

\* C3: the attempts for one page are at most 3 calls with the same cursor and
\* page size, a wait of 1 after the first failure and of 2 after the second,
\* none after the third; when every call throws, the fetch returns no turns
\* and 0 rounds after exactly 3 calls.
C3_RetrySchedule ==
    \A i \in Invocations :
       LET f == frames[i]
       IN  /\ IsPrefix(f.page_trace, FailedPageTrace(f.payloads))
           /\ f.pc \in {"fetch_call", "fetch_sleep", "fetch_page"} =>
                  /\ f.payloads.message_seq = f.message_seq
                  /\ f.payloads.count = f.per_count
           /\ f.pc = "fetch_sleep" => f.page_trace[Len(f.page_trace)].op = "call"
           /\ (f.pc = "fetch_return" /\ f.rpc_calls > 0
                  /\ f.rpc_failures = f.rpc_calls) =>
                  /\ f.contexts = <<>>
                  /\ f.query_rounds = 0
                  /\ f.rpc_calls = 3
                  /\ f.page_trace =
                        FailedPageTrace([message_seq |-> 0, count |-> f.per_count])

\* the fetch has returned after a first page whose three attempts all threw
C3_Witness ==
    \E i \in Invocations :
       /\ frames[i].pc = "fetch_return"
       /\ frames[i].rpc_calls = 3
       /\ frames[i].rpc_failures = 3

\* C7: no page request of a run carries a cursor that an earlier request of
\* the run carried.
C7_NoPageRequestedTwice ==
    \A i \in Invocations :
       \A j, k \in DOMAIN frames[i].requested :
          j # k => frames[i].requested[j] # frames[i].requested[k]

----------------------------------------------------------------------------
(* Properties of _build_user_context *)

\* a message of the user whose content segments are all non-text
NonTextOnly(m, uid) ==
    /\ m.user_id = uid
    /\ m.has_message
    /\ m.message # <<>>
    /\ \A k \in DOMAIN m.message :
          m.message[k].has_type /\ m.message[k].type # "text"

\* C4: the builder emits no turn for a message of the target user whose
\* content segments are all non-text: a page's turns are at most as many as
\* its other messages of the target user.
C4_NonTextEmitsNothing ==
    \A i \in Invocations :
       LET f == frames[i]
       IN  (f.pc = "build_return" /\ ~f.built.raised) =>
              Len(f.built.value) <=
                 Cardinality({k \in DOMAIN f.round_messages :
                                 /\ f.round_messages[k].user_id =
                                       int(f.target_id).value
                                 /\ ~NonTextOnly(f.round_messages[k],
                                                 int(f.target_id).value)})

\* a message that has every field the builder reads
WellFormed(m) ==
    /\ m.has_message
    /\ \A k \in DOMAIN m.message :
          /\ m.message[k].has_type
          /\ m.message[k].type = "text" => m.message[k].has_text

\* C5: the builder raises nothing for a page with malformed messages and
\* returns the turns of the page's other messages.
C5_MalformedLeftOut ==
    \A i \in Invocations :
       LET f == frames[i]
       IN  f.pc = "build_return" =>
              /\ ~f.built.raised
              /\ f.built.value =
                    BuildLoop(SelectSeq(f.round_messages, WellFormed),
                              int(f.target_id).value).value

----------------------------------------------------------------------------
(* _has_api_error_pattern *)

\* In the texts of the LLM a word is one element of the sequence: the
\* signatures are matched word by word, \s* between two words of a signature
\* is any run of whitespace elements.

\* str.lower() of a word, for re.IGNORECASE: the words of the texts that
\* are written with capitals and occur in a signature; every other word of
\* the texts matches no signature in either case
Lower(w) ==
    CASE w = "Error" -> "error"
      [] w = "ERROR" -> "error"
      [] w = "Request" -> "request"
      [] w = "Code:" -> "code:"
      [] w = "APITimeoutError" -> "apitimeouterror"
      [] w = "InternalServerError" -> "internalservererror"
      [] w = "Connection" -> "connection"
      [] OTHER -> w

\* 5\d{2} over the status codes of the texts
Code5xx == {"500", "502", "503", "504"}

\* error_patterns: each signature is a sequence of sets of (lowered) words
error_patterns ==
    {<<{"error"}, {"code:"}, Code5xx>>,
     <<{"apitimeouterror"}>>,
     <<{"request"}, {"timed"}, {"out"}>>,
     <<{"internalservererror"}>>,
     <<{"count_token_failed"}>>,
     <<{"bad_response_status_code"}>>,
     <<{"connection"}, {"error"}>>,
     <<{"remote"}, {"disconnected"}>>,
     <<{"read"}, {"timeout"}>>,
     <<{"connect"}, {"timeout"}>>}

\* whether pattern pat matches text at position k, whitespace skipped
\* between two words of the pattern
RECURSIVE MatchAt(_, _, _)
MatchAt(pat, text, k) ==
    IF pat = <<>> THEN TRUE
    ELSE IF k > Len(text) THEN FALSE
    ELSE /\ Lower(text[k]) \in Head(pat)
         /\ LET rest == Tail(pat)
                skipped == lstrip(SubSeq(text, k + 1, Len(text)))
            IN  IF rest = <<>> THEN TRUE
                ELSE MatchAt(rest, skipped, 1)

\* a search that looks at the start of the text only, as re.match does
SearchAtStart(text) ==
    \E pat \in error_patterns : text # <<>> /\ MatchAt(pat, text, 1)

\* combined_pattern.search(text)
Search(text) ==
    \E pat \in error_patterns : \E k \in 1..Len(text) : MatchAt(pat, text, k)

\* substring in text
Contains(text, w) == \E k \in 1..Len(text) : text[k] = w

\* _has_api_error_pattern(text); text is [is_none, text]
_has_api_error_pattern(t) ==
    IF t.is_none \/ t.text = <<>> THEN FALSE
    ELSE IF Contains(t.text, "AstrBot") /\ Contains(t.text, "qingqiu_shibai")
    THEN TRUE
    ELSE Search(t.text)

----------------------------------------------------------------------------
(* _has_api_error_pattern on its own: every text of at most MaxTextLen words,
   and one longer text for each signature *)

\* the words of the texts
MatchWords ==
    {" ", "ok", "AstrBot", "astrbot", "qingqiu_shibai", "Error", "error",
     "code:", "503", "404", "read", "timeout"}

\* texts that hold a signature between other words
LongTexts ==
    {<<"ok", " ", "Error", " ", "code:", " ", "503", " ", "ok">>,
     <<"ok", " ", "ERROR", " ", " ", "Code:", "504">>,
     <<"Error", " ", "code:", " ", "404">>,
     <<"Error", " ", "ok", " ", "code:", " ", "503">>,
     <<"ok", " ", "APITimeoutError">>,
     <<"ok", " ", "Request", " ", "timed", " ", "out">>,
     <<"Request", " ", "out">>,
     <<"ok", " ", "InternalServerError", " ", "ok">>,
     <<"ok", " ", "count_token_failed">>,
     <<"bad_response_status_code", " ", "ok">>,
     <<"ok", " ", "Connection", " ", "error">>,
     <<"ok", " ", "remote", " ", "disconnected">>,
     <<"ok", " ", "connect", " ", " ", "timeout">>,
     <<"qingqiu_shibai", " ", "ok", " ", "AstrBot">>,
     <<"ok", " ", "astrbot", " ", "qingqiu_shibai">>}

\* the arguments: None, or a string
MatchTexts ==
    {[is_none |-> TRUE, text |-> <<>>]}
    \cup {[is_none |-> FALSE, text |-> t] :
            t \in SeqsUpTo(MatchWords, MaxTextLen) \cup LongTexts}

MatchEntryFrame(t) == [IdleFrame EXCEPT !.pc = "match_enter", !.text = t]

InitMatch ==
    /\ conf = <<>>
    /\ \E t \in MatchTexts :
         frames = [i \in Invocations |->
                     IF i = 1 THEN MatchEntryFrame(t) ELSE IdleFrame]

\* lines 330-353: one call of _has_api_error_pattern
MatchCall(i) ==
    /\ frames[i].pc = "match_enter"
    /\ Set(i, [frames[i] EXCEPT
           !.is_error = _has_api_error_pattern(frames[i].text),
           !.pc = "match_return"])
    /\ UNCHANGED conf

NextMatch == \E i \in Invocations : MatchCall(i)

SpecMatch == InitMatch /\ [][NextMatch]_vars

----------------------------------------------------------------------------
(* get_llm_respond *)

DefaultLlmMaxRetries == 3
DefaultLlmRetryDelay == 2

NoneText == [is_none |-> TRUE, text |-> <<>>]
Text(t) == [is_none |-> FALSE, text |-> t]

\* what one call of llm_generate does: it throws, or it returns a response
\* whose completion_text is a string or None
LlmThrow == [kind |-> "throw", completion_text |-> NoneText]
LlmReturn(t) == [kind |-> "ok", completion_text |-> t]

LlmCallEvent(r) == [op |-> "call", response |-> r, delay |-> 0]
LlmSleepEvent(d) == [op |-> "sleep", response |-> LlmThrow, delay |-> d]

\* what formatting the system prompt template does
\*   "ok": format succeeds; "KeyError": the template names an unknown field,
\*   or the option is missing; "ValueError": the template is malformed
FormatOutcome ==
    IF "system_prompt_template" \notin DOMAIN conf THEN "KeyError"
    ELSE conf["system_prompt_template"]

\* lines 357-377: the retry budget, the delay and the prompts
GetLlmRespondEnter(i) ==
    /\ frames[i].pc = "llm_enter"
    /\ LET f == frames[i]
           max_retries == Max(1, ConfGet("llm_max_retries", DefaultLlmMaxRetries))
           retry_delay == Max(0, ConfGet("llm_retry_delay", DefaultLlmRetryDelay))
       IN  IF FormatOutcome \in {"ok", "KeyError"}
           THEN Set(i, [f EXCEPT !.max_retries = max_retries,
                                 !.retry_delay = retry_delay,
                                 !.llm_attempt = 1,
                                 !.llm_trace = <<>>,
                                 !.pc = "llm_call"])
           ELSE Set(i, [f EXCEPT !.max_retries = max_retries,
                                 !.retry_delay = retry_delay,
                                 !.pc = "llm_raised"])
    /\ UNCHANGED conf

\* not (text and text.strip())
is_empty(t) == t.is_none \/ t.text = <<>> \/ strip(t.text) = <<>>

\* a validation that forgets the error signatures
AcceptedWithoutErrorCheck(t) == ~is_empty(t)

\* `if not is_empty and not is_error`
Accepted(t) == ~is_empty(t) /\ ~_has_api_error_pattern(t)

\* a retry test that allows one attempt more than the budget
HasNextLlmAttemptOffByOne(attempt, max_retries) == attempt <= max_retries

\* `if attempt < max_retries`
HasNextLlmAttempt(attempt, max_retries) == attempt < max_retries

\* lines 380-407: one attempt; the LLM answers from responses
LlmCallWith(i, responses) ==
    /\ frames[i].pc = "llm_call"
    /\ \E r \in responses :
         LET f == [frames[i] EXCEPT !.llm_trace = Append(@, LlmCallEvent(r))]
         IN  IF r.kind = "ok" /\ Accepted(r.completion_text)
             THEN Set(i, [f EXCEPT !.llm_respond = r.completion_text,
                                   !.pc = "llm_return"])
             ELSE IF HasNextLlmAttempt(f.llm_attempt, f.max_retries)
             THEN Set(i, [f EXCEPT !.pc = "llm_sleep"])
             ELSE Set(i, [f EXCEPT !.llm_respond = NoneText,
                                   !.pc = "llm_return"])
    /\ UNCHANGED conf

\* a wait that doubles with every attempt, as the wait of the fetch does
LlmDelayBackoff(retry_delay, attempt) == retry_delay * Pow2(attempt - 1)

\* asyncio.sleep(retry_delay): the length of the wait after attempt
LlmDelay(retry_delay, attempt) == retry_delay

\* lines 402 and 407: the wait, then the next attempt
LlmSleep(i) ==
    /\ frames[i].pc = "llm_sleep"
    /\ LET f == frames[i]
       IN  Set(i, [f EXCEPT
               !.llm_trace = Append(@, LlmSleepEvent(
                                          LlmDelay(f.retry_delay,
                                                   f.llm_attempt))),
               !.llm_attempt = @ + 1,
               !.pc = "llm_call"])
    /\ UNCHANGED conf

----------------------------------------------------------------------------
(* get_llm_respond on its own: every retry budget, every LLM *)

LlmTexts ==
    {NoneText,
     Text(<<>>),
     Text(<<" ">>),
     Text(<<"ok">>),
     Text(<<" ", "ok", " ">>),
     Text(<<"Request", " ", "timed", " ", "out">>),
     Text(<<"AstrBot", " ", "qingqiu_shibai">>)}

LlmResponses == {LlmThrow} \cup {LlmReturn(t) : t \in LlmTexts}

LlmCall(i) == LlmCallWith(i, LlmResponses)

LlmConfs ==
    {ConfOf([system_prompt_template |-> "ok"], {})}
    \cup {[system_prompt_template |-> tpl, llm_max_retries |-> n,
           llm_retry_delay |-> d] :
            tpl \in {"ok", "KeyError", "ValueError"},
            n \in -1..MaxLlmRetries,
            d \in {-1, 1}}

LlmEntryFrame == [IdleFrame EXCEPT !.pc = "llm_enter"]

InitLLM ==
    /\ conf \in LlmConfs
    /\ frames = [i \in Invocations |->
                   IF i = 1 THEN LlmEntryFrame ELSE IdleFrame]

NextLLM ==
    \E i \in Invocations :
       \/ GetLlmRespondEnter(i)
       \/ LlmCall(i)
       \/ LlmSleep(i)

SpecLLM == InitLLM /\ [][NextLLM]_vars

----------------------------------------------------------------------------
(* Properties of get_llm_respond *)

\* the responses of the LLM calls made so far, in order
LlmCallsOf(f) ==
    LET IsCall(e) == e.op = "call"
    IN  SelectSeq(f.llm_trace, IsCall)

\* N = max(1, llm_max_retries), llm_max_retries being 3 when not configured
RetryBudget ==
    IF "llm_max_retries" \notin DOMAIN conf THEN 3
    ELSE IF conf["llm_max_retries"] >= 1 THEN conf["llm_max_retries"]
    ELSE 1

\* C8: get_llm_respond makes at most N = max(1, llm_max_retries) LLM calls and
\* at least one before it returns; when every call returned the empty string
\* it has made exactly N calls and returns None.
C8_LlmCallBudget ==
    \A i \in Invocations :
       LET f == frames[i]
           calls == LlmCallsOf(f)
       IN  /\ Len(calls) <= RetryBudget
           /\ f.pc = "llm_return" =>
                 /\ Len(calls) >= 1
                 /\ (\A k \in DOMAIN calls :
                        calls[k].response = LlmReturn(Text(<<>>))) =>
                       /\ Len(calls) = RetryBudget
                       /\ f.llm_respond = NoneText

\* three calls that all returned the empty string, then the return
C8_Witness ==
    \E i \in Invocations :
       /\ frames[i].pc = "llm_return"
       /\ Len(LlmCallsOf(frames[i])) = 3
       /\ \A k \in DOMAIN frames[i].llm_trace :
             frames[i].llm_trace[k].op = "call" =>
                frames[i].llm_trace[k].response = LlmReturn(Text(<<>>))

\* a response that carries a usable text: a string that is non-empty after
\* trimming and that _has_api_error_pattern does not classify as an error
Usable(r) ==
    /\ r.kind = "ok"
    /\ ~r.completion_text.is_none
    /\ strip(r.completion_text.text) # <<>>
    /\ ~_has_api_error_pattern(r.completion_text)

\* C9: get_llm_respond returns the text of the first attempt whose text is
\* non-empty after trimming and not an error text, makes no call after it,
\* and returns None exactly when none of its N attempts gave such a text.
C9_FirstUsableReturned ==
    \A i \in Invocations :
       LET f == frames[i]
           calls == LlmCallsOf(f)
       IN  /\ \A k \in DOMAIN f.llm_trace :
                 (f.llm_trace[k].op = "call" /\ Usable(f.llm_trace[k].response))
                    => (k = Len(f.llm_trace) /\ f.pc = "llm_return")
           /\ f.pc = "llm_return" =>
                 IF Usable(calls[Len(calls)].response)
                 THEN f.llm_respond = calls[Len(calls)].response.completion_text
                 ELSE f.llm_respond = NoneText /\ Len(calls) = RetryBudget

\* an error text on attempts 1 and 2, a usable text on attempt 3, returned
C9_Witness ==
    \E i \in Invocations :
       LET f == frames[i]
           calls == LlmCallsOf(f)
           timed_out == LlmReturn(Text(<<"Request", " ", "timed", " ", "out">>))
       IN  /\ f.pc = "llm_return"
           /\ Len(calls) = 3
           /\ calls[1].response = timed_out
           /\ calls[2].response = timed_out
           /\ f.llm_respond = Text(<<"ok">>)

----------------------------------------------------------------------------
(* get_target_info *)

\* the record of a lookup that failed, or that holds none of the fields: {}
EmptyInfo == [card |-> <<>>, nickname |-> <<>>, sex |-> <<>>]

\* a or b, for strings
Or(a, b) == IF a # <<>> THEN a ELSE b

\* the fallback nickname
FallbackNickname == <<"q", "u", "n", "y", "o", "u">>

\* lines 418-419: the two identifiers as integers
GetTargetInfoEnter(i) ==
    /\ frames[i].pc = "target_info"
    /\ LET f == frames[i]
       IN  IF int(f.event.group_id).raised \/ int(f.target_id).raised
           THEN Set(i, [f EXCEPT !.failed_stage = "profile", !.pc = "escaped"])
           ELSE Set(i, [f EXCEPT !.pc = "member_lookup"])
    /\ UNCHANGED conf

\* lines 434-439: the group-member lookup answers from infos, or throws when
\* throws holds
GetGroupMemberInfoWith(i, infos, throws) ==
    /\ frames[i].pc = "member_lookup"
    /\ \/ \E m \in infos :
            Set(i, [frames[i] EXCEPT !.member_info = m,
                                     !.lookups = @ + 1,
                                     !.pc = "stranger_lookup"])
       \/ /\ throws
          /\ Set(i, [frames[i] EXCEPT !.member_info = EmptyInfo,
                                      !.member_failed = TRUE,
                                      !.lookups = @ + 1,
                                      !.pc = "stranger_lookup"])
    /\ UNCHANGED conf

\* a filling that prefers the stranger record
FillInfoStrangerFirst(member_info, stranger_info) ==
    [nickname |-> Or(stranger_info.nickname,
                     Or(member_info.card,
                        Or(member_info.nickname, FallbackNickname))),
     gender |-> Or(stranger_info.sex,
                   Or(member_info.sex, <<"u", "n", "k", "n", "o", "w", "n">>))]

\* lines 449-450: nickname and gender from the two records
FillInfo(member_info, stranger_info) ==
    [nickname |-> Or(member_info.card,
                     Or(member_info.nickname,
                        Or(stranger_info.nickname, FallbackNickname))),
     gender |-> Or(member_info.sex,
                   Or(stranger_info.sex, <<"u", "n", "k", "n", "o", "w", "n">>))]

\* lines 441-483: the stranger lookup answers from infos, or throws when
\* throws holds; then the fields are filled and the mapping is returned
GetStrangerInfoWith(i, infos, throws) ==
    /\ frames[i].pc = "stranger_lookup"
    /\ \/ \E st \in infos :
            Set(i, [frames[i] EXCEPT
                !.stranger_info = st,
                !.lookups = @ + 1,
                !.user_info = FillInfo(frames[i].member_info, st),
                !.pc = "parse"])
       \/ /\ throws
          /\ Set(i, [frames[i] EXCEPT
                !.stranger_info = EmptyInfo,
                !.stranger_failed = TRUE,
                !.lookups = @ + 1,
                !.user_info = FillInfo(frames[i].member_info, EmptyInfo),
                !.pc = "parse"])
    /\ UNCHANGED conf

----------------------------------------------------------------------------
(* get_portrayal *)

PlainResult(tag, text) == [kind |-> "plain", tag |-> tag, text |-> text]
ImageResult == [kind |-> "image", tag |-> "image", text |-> <<>>]

\* get_at_id: the first mention that is not the bot itself, or None (<<>>)
RECURSIVE get_at_id(_, _)
get_at_id(ats, self_id) ==
    IF ats = <<>> THEN <<>>
    ELSE IF Head(ats) # self_id THEN Head(ats)
    ELSE get_at_id(Tail(ats), self_id)

\* lines 494-499: the platform test and the target of the command
PortrayalStart(i) ==
    /\ frames[i].pc = "start"
    /\ LET f == frames[i]
       IN  IF f.event.platform # "aiocqhttp"
           THEN Set(i, [f EXCEPT
                    !.replies = Append(@, PlainResult("unsupported", <<>>)),
                    !.pc = "done"])
           ELSE Set(i, [f EXCEPT
                    !.target_id = Or(get_at_id(f.event.ats, f.event.self_id),
                                     f.event.sender_id),
                    !.pc = "target_info"])
    /\ UNCHANGED conf

\* the superscript two, a character for which str.isdigit() holds and int()
\* raises
SuperscriptTwo == "sup2"

\* str.isdigit()
isdigit(s) ==
    s # <<>> /\ \A k \in 1..Len(s) : s[k] \in DigitChars \cup {SuperscriptTwo}

DefaultMaxQueryRounds == 10
MaxRoundsCap == 200

\* a clamp without the upper limit
ClampRoundsNoCap(max_query_rounds) == Max(0, max_query_rounds)

\* min(200, max(0, max_query_rounds))
ClampRounds(max_query_rounds) == Min(MaxRoundsCap, Max(0, max_query_rounds))

\* lines 505-515: the rounds argument, the first notice, the call of the fetch
\* a handler that emits the notice only after the fetch
FetchNoticeOmitted(replies) == replies

\* line 511: the notice that the history is being fetched
FetchNotice(replies) == Append(replies, PlainResult("notice_fetch", <<>>))

ParseRounds(i) ==
    /\ frames[i].pc = "parse"
    /\ LET f == frames[i]
           end_parm == f.event.end_parm
           parsed == int(end_parm)
           max_query_rounds ==
               IF isdigit(end_parm) THEN parsed.value
               ELSE ConfGet("max_query_rounds", DefaultMaxQueryRounds)
       IN  IF isdigit(end_parm) /\ parsed.raised
           THEN Set(i, [f EXCEPT !.failed_stage = "parse", !.pc = "escaped"])
           ELSE Set(i, [f EXCEPT
                    !.max_query_rounds = ClampRounds(max_query_rounds),
                    !.replies = FetchNotice(@),
                    !.pc = "fetch_enter"])
    /\ UNCHANGED conf

\* an exception of get_msg_contexts leaves get_portrayal: line 515 is outside
\* the try block
FetchRaised(i) ==
    /\ frames[i].pc = "fetch_raised"
    /\ Set(i, [frames[i] EXCEPT !.failed_stage = "fetch", !.pc = "escaped"])
    /\ UNCHANGED conf

\* a test that never takes the early return
NoContextsNever(contexts) == FALSE

\* `if not contexts`
NoContexts(contexts) == contexts = <<>>

\* lines 517-523: the fetch has returned
AfterFetch(i) ==
    /\ frames[i].pc = "fetch_return"
    /\ LET f == [frames[i] EXCEPT !.fetched = TRUE]
       IN  IF NoContexts(f.contexts)
           THEN Set(i, [f EXCEPT
                    !.replies = Append(@, PlainResult("no_messages", <<>>)),
                    !.pc = "done"])
           ELSE Set(i, [f EXCEPT
                    !.replies = Append(@, PlainResult("notice_analysis", <<>>)),
                    !.pc = "llm_enter"])
    /\ UNCHANGED conf

\* lines 533-535: an exception of get_llm_respond is caught by the handler
LlmRaised(i) ==
    /\ frames[i].pc = "llm_raised"
    /\ Set(i, [frames[i] EXCEPT
           !.failed_stage = "analysis",
           !.replies = Append(@, PlainResult("interrupted", <<>>)),
           !.pc = "done"])
    /\ UNCHANGED conf

\* lines 528-532: the analysis has returned
AfterLlm(i) ==
    /\ frames[i].pc = "llm_return"
    /\ LET f == frames[i]
       IN  IF ~f.llm_respond.is_none /\ f.llm_respond.text # <<>>
           THEN Set(i, [f EXCEPT !.pc = "render"])
           ELSE Set(i, [f EXCEPT
                    !.replies = Append(@, PlainResult("llm_empty", <<>>)),
                    !.pc = "done"])
    /\ UNCHANGED conf

\* what markdown.markdown and html_render do for one request
RenderOutcomes == {"image", "no_image", "markdown_throws", "render_throws"}

\* f"【渲染失败】\n{content}"
RenderFailedText(content) == <<"[render failed]", "\n">> \o content

\* a fallback that reports the failure and drops the analysis
SystemErrorTextOnly(content) == <<"[system error]", "\n">>

\* f"【系统异常】\n{content}"
SystemErrorText(content) == <<"[system error]", "\n">> \o content

\* lines 226-254: _render_portrayal
RenderPortrayalWith(i, outcomes) ==
    /\ frames[i].pc = "render"
    /\ \E outcome \in outcomes :
         LET f == frames[i]
             content == f.llm_respond.text
         IN  CASE outcome = "image" ->
                    Set(i, [f EXCEPT !.render_requests = @ + 1,
                                     !.render_outcome = outcome,
                                     !.replies = Append(@, ImageResult),
                                     !.pc = "done"])
               [] outcome = "no_image" ->
                    Set(i, [f EXCEPT
                        !.render_requests = @ + 1,
                        !.render_outcome = outcome,
                        !.replies = Append(@, PlainResult("render_failed",
                                                RenderFailedText(content))),
                        !.pc = "done"])
               [] outcome = "markdown_throws" ->
                    Set(i, [f EXCEPT
                        !.failed_stage = "render",
                        !.render_outcome = outcome,
                        !.replies = Append(@, PlainResult("system_error",
                                                SystemErrorText(content))),
                        !.pc = "done"])
               [] outcome = "render_throws" ->
                    Set(i, [f EXCEPT
                        !.failed_stage = "render",
                        !.render_requests = @ + 1,
                        !.render_outcome = outcome,
                        !.replies = Append(@, PlainResult("system_error",
                                                SystemErrorText(content))),
                        !.pc = "done"])
    /\ UNCHANGED conf

RenderPortrayal(i) == RenderPortrayalWith(i, RenderOutcomes)

----------------------------------------------------------------------------
(* The command: one invocation of get_portrayal *)

\* the answers of the gateway and of the LLM in the runs of the command
CmdRpcResponses ==
    {[kind |-> "throw", has_messages |-> FALSE, messages |-> <<>>],
     [kind |-> "ok", has_messages |-> TRUE, messages |-> <<>>],
     [kind |-> "ok", has_messages |-> TRUE,
      messages |-> <<Msg(TargetUid, 1, <<TextSeg(IdText(1))>>, 0)>>],
     [kind |-> "ok", has_messages |-> TRUE,
      messages |-> <<NoContentMsg(TargetUid, 1, 0)>>]}

CmdLlmResponses ==
    {LlmThrow,
     LlmReturn(Text(<<>>)),
     LlmReturn(Text(<<"ok">>)),
     LlmReturn(Text(<<"Error", " ", "code:", " ", "503">>))}

MemberInfos ==
    {[card |-> <<"C">>, nickname |-> <<"M">>, sex |-> <<"m", "a", "l", "e">>],
     [card |-> <<>>, nickname |-> <<"M">>, sex |-> <<>>]}

StrangerInfos ==
    {[card |-> <<>>, nickname |-> <<"S">>, sex |-> <<"f", "e", "m", "a", "l", "e">>],
     [card |-> <<>>, nickname |-> <<"S">>, sex |-> <<>>]}

CmdConfs ==
    LET base == [max_msg_count |-> 1, per_msg_count |-> 1,
                 max_query_rounds |-> 1, llm_max_retries |-> 2,
                 llm_retry_delay |-> 1, system_prompt_template |-> "ok"]
    IN  {base,
         [base EXCEPT !.system_prompt_template = "ValueError"],
         [base EXCEPT !.max_query_rounds = -1],
         [base EXCEPT !.max_query_rounds = 300],
         ConfOf(base, {"max_msg_count", "system_prompt_template"})}

CmdEvents ==
    [platform : {"aiocqhttp", "other"},
     group_id : {<<"7">>, <<>>},
     self_id : {<<"9">>},
     ats : {<<>>, <<<<"9">>, <<"1">>>>},
     sender_id : {<<"1">>},
     end_parm : {<<"h">>, <<"0">>, <<"2">>, <<"9", "9", "9">>,
                 <<SuperscriptTwo>>}]

StartFrame(event) == [IdleFrame EXCEPT !.pc = "start", !.event = event]

Init ==
    /\ conf \in CmdConfs
    /\ \E e \in CmdEvents :
         frames = [i \in Invocations |->
                     IF i = 1 THEN StartFrame(e) ELSE IdleFrame]

CmdFetchCall(i) == FetchCallWith(i, CmdRpcResponses)
CmdLlmCall(i) == LlmCallWith(i, CmdLlmResponses)
GetGroupMemberInfo(i) == GetGroupMemberInfoWith(i, MemberInfos, TRUE)
GetStrangerInfo(i) == GetStrangerInfoWith(i, StrangerInfos, TRUE)

Next ==
    \E i \in Invocations :
       \/ PortrayalStart(i)
       \/ GetTargetInfoEnter(i)
       \/ GetGroupMemberInfo(i)
       \/ GetStrangerInfo(i)
       \/ ParseRounds(i)
       \/ GetMsgContextsEnter(i)
       \/ FetchWhile(i)
       \/ CmdFetchCall(i)
       \/ FetchSleep(i)
       \/ FetchPage(i)
       \/ FetchRaised(i)
       \/ AfterFetch(i)
       \/ GetLlmRespondEnter(i)
       \/ CmdLlmCall(i)
       \/ LlmSleep(i)
       \/ LlmRaised(i)
       \/ AfterLlm(i)
       \/ RenderPortrayal(i)

Spec == Init /\ [][Next]_vars

----------------------------------------------------------------------------
(* Properties of get_portrayal *)

LastReply(f) == f.replies[Len(f.replies)]

\* C6: a failure raised at any stage of the command is caught inside the
\* handler and answered with the 'analysis interrupted' message; no exception
\* leaves get_portrayal.
C6_FailuresCaught ==
    \A i \in Invocations :
       LET f == frames[i]
       IN  /\ f.pc # "escaped"
           /\ (f.pc = "done" /\ f.failed_stage # "") =>
                 LastReply(f).tag = "interrupted"

\* C10: once the fetch has returned no turns, the command has ended with the
\* 'no valid messages found' notice as its last reply, without any LLM call,
\* render request or error report.
C10_EmptyFetchEnds ==
    \A i \in Invocations :
       LET f == frames[i]
       IN  (f.fetched /\ f.contexts = <<>>) =>
              /\ f.pc = "done"
              /\ f.replies = <<PlainResult("notice_fetch", <<>>),
                               PlainResult("no_messages", <<>>)>>
              /\ f.llm_trace = <<>>
              /\ f.render_requests = 0
              /\ f.failed_stage = ""

\* the command has ended after a page whose three attempts all failed
C10_Witness ==
    \E i \in Invocations :
       /\ frames[i].pc = "done"
       /\ frames[i].fetched
       /\ frames[i].contexts = <<>>
       /\ frames[i].rpc_failures = 3
       /\ LastReply(frames[i]).tag = "no_messages"

\* whether text ends with part
IsSuffix(part, text) ==
    /\ Len(part) <= Len(text)
    /\ part = SubSeq(text, Len(text) - Len(part) + 1, Len(text))

\* C11: when the analysis returned a text, the last reply of the command is
\* the rendered image, or a plain-text message that holds the whole analysis
\* text; the plain text is used when the renderer returns no image and when
\* the renderer or the markup conversion throws.
C11_RenderFallbackKeepsText ==
    \A i \in Invocations :
       LET f == frames[i]
       IN  (f.pc = "done" /\ ~f.llm_respond.is_none) =>
              /\ f.render_outcome \in RenderOutcomes
              /\ f.render_outcome = "image" => LastReply(f) = ImageResult
              /\ f.render_outcome # "image" =>
                    /\ LastReply(f).kind = "plain"
                    /\ f.llm_respond.text # <<>>
                    /\ IsSuffix(f.llm_respond.text, LastReply(f).text)

\* the renderer threw and the analysis text went out as plain text
C11_Witness ==
    \E i \in Invocations :
       /\ frames[i].pc = "done"
       /\ frames[i].render_outcome = "render_throws"
       /\ LastReply(frames[i]).kind = "plain"
       /\ IsSuffix(<<"ok">>, LastReply(frames[i]).text)

\* the rounds argument of the command as an integer: its trailing token when
\* that is a run of digits, the configured value (10 when not set) otherwise
RequestedRounds(f) ==
    IF int(f.event.end_parm).raised
    THEN IF "max_query_rounds" \in DOMAIN conf THEN conf["max_query_rounds"]
         ELSE 10
    ELSE int(f.event.end_parm).value

\* C12: the max_query_rounds that get_portrayal hands to get_msg_contexts is
\* in 0..200: the requested value when that is in the range, the nearer end
\* of the range otherwise.
C12_RoundsClamped ==
    \A i \in Invocations :
       LET f == frames[i]
           r == RequestedRounds(f)
       IN  f.pc = "fetch_enter" =>
              /\ f.max_query_rounds \in 0..200
              /\ r \in 0..200 => f.max_query_rounds = r
              /\ r < 0 => f.max_query_rounds = 0
              /\ r > 200 => f.max_query_rounds = 200

\* the command was given 999 rounds and the fetch is called with 200
C12_Witness ==
    \E i \in Invocations :
       /\ frames[i].pc = "fetch_enter"
       /\ frames[i].event.end_parm = <<"9", "9", "9">>
       /\ frames[i].max_query_rounds = 200

----------------------------------------------------------------------------
(* Accumulation of get_msg_contexts *)

\* an invocation inside get_msg_contexts
InFetch(f) ==
    f.pc \in {"fetch_while", "fetch_call", "fetch_sleep", "fetch_page",
              "fetch_return", "fetch_raised"}

\* a page is requested only below the target count
RequestedBelowTarget ==
    \A i \in Invocations :
       frames[i].pc \in {"fetch_call", "fetch_sleep"} =>
          Len(frames[i].contexts) < frames[i].target_count

\* a step that counts a round appends the turns of the page just fetched
\* after the turns already held; every other step of the fetch leaves the
\* turns and the round count alone
AppendedInOrder ==
    \A i \in Invocations :
       LET f == frames[i]
           g == frames'[i]
       IN  (InFetch(f) /\ InFetch(g)) =>
              IF g.query_rounds # f.query_rounds
              THEN /\ f.pc = "fetch_page"
                   /\ g.query_rounds = f.query_rounds + 1
                   /\ g.contexts = f.contexts \o
                         _build_user_context(f.round_messages,
                                             f.target_id).value
              ELSE g.contexts = f.contexts

\* the run whose every request was answered at once with a full page, with
\* enough rounds allowed to reach the target count: it stops at the first
\* round that reaches the target count, holding one turn for each message
FullPagesRun ==
    \A i \in Invocations :
       LET f == frames[i]
       IN  (/\ f.pc = "fetch_return"
            /\ f.all_full
            /\ f.per_count > 0
            /\ f.max_query_rounds * f.per_count >= f.target_count) =>
              /\ f.query_rounds * f.per_count >= f.target_count
              /\ f.query_rounds > 0 =>
                    (f.query_rounds - 1) * f.per_count < f.target_count
              /\ f.rpc_calls = f.query_rounds
              /\ Len(f.contexts) = f.query_rounds * f.per_count

\* C13: get_msg_contexts requests a page only while it holds fewer turns than
\* max_msg_count and appends the turns of the pages in the order fetched; with
\* full pages of per_msg_count messages of the target user it stops after the
\* first round that reaches max_msg_count (pages of 200, target 500: 3 rounds
\* and 600 turns; here pages of MaxPageLen, target 2 * MaxPageLen + 1).
C13_AccumulatesInOrder ==
    /\ [](RequestedBelowTarget /\ FullPagesRun)
    /\ [][AppendedInOrder]_vars

\* three full pages were consumed for a target of 2 * MaxPageLen + 1 turns
C13_Witness ==
    \E i \in Invocations :
       /\ frames[i].pc = "fetch_return"
       /\ frames[i].all_full
       /\ frames[i].per_count = MaxPageLen
       /\ frames[i].target_count = 2 * MaxPageLen + 1
       /\ frames[i].query_rounds = 3
       /\ Len(frames[i].contexts) = 3 * MaxPageLen

----------------------------------------------------------------------------
(* Filtering of _build_user_context *)

\* whether turn can be the turn of message m: a user turn whose content ends
\* with the stripped text of m
TurnOf(turn, m) ==
    /\ turn.role = "user"
    /\ m.has_message
    /\ IsSuffix(strip(join(text_segments(m.message).value)), turn.content)

\* C14: the turns _build_user_context returns are at most as many as the
\* messages of the page, and they are, in page order, turns of distinct
\* messages of the page whose sender is the target user.
C14_FilteredInOrder ==
    \A i \in Invocations :
       LET f == frames[i]
           page == f.round_messages
           turns == f.built.value
       IN  (f.pc = "build_return" /\ ~f.built.raised) =>
              /\ Len(turns) <= Len(page)
              /\ \E idx \in [DOMAIN turns -> DOMAIN page] :
                    /\ \A j, k \in DOMAIN turns : j < k => idx[j] < idx[k]
                    /\ \A j \in DOMAIN turns :
                          /\ page[idx[j]].user_id = int(f.target_id).value
                          /\ TurnOf(turns[j], page[idx[j]])

\* a page with messages of two users gave fewer turns than it has messages
C14_Witness ==
    \E i \in Invocations :
       LET f == frames[i]
       IN  /\ f.pc = "build_return"
           /\ ~f.built.raised
           /\ Len(f.built.value) > 0
           /\ Len(f.built.value) < Len(f.round_messages)
           /\ \E k \in DOMAIN f.round_messages :
                 /\ f.round_messages[k].user_id # int(f.target_id).value
                 /\ TargetText(f.round_messages[k],
                               f.round_messages[k].user_id)

----------------------------------------------------------------------------
(* Nickname and gender of get_target_info *)

Unknown == <<"u", "n", "k", "n", "o", "w", "n">>

\* C15: a failed lookup does not end get_target_info. In the mapping it
\* returns, a non-empty value of the group-member record wins (card, then
\* nickname; sex); with the member lookup failed the nickname and the gender
\* are those the stranger record holds; a value neither record holds, as when
\* both lookups failed, is '群友' for the nickname and 'unknown' for the gender.
C15_ProfileFallbacks ==
    \A i \in Invocations :
       LET f == frames[i]
           m == f.member_info
           st == f.stranger_info
           u == f.user_info
       IN  /\ f.failed_stage = "profile" => f.lookups = 0
           /\ f.lookups = 1 => f.pc = "stranger_lookup"
           /\ f.lookups = 2 => f.pc \notin {"target_info", "member_lookup",
                                             "stranger_lookup"}
           /\ (f.lookups = 2 /\ f.pc = "parse") =>
                 /\ m.card # <<>> => u.nickname = m.card
                 /\ (m.card = <<>> /\ m.nickname # <<>>) =>
                       u.nickname = m.nickname
                 /\ m.sex # <<>> => u.gender = m.sex
                 /\ (f.member_failed /\ ~f.stranger_failed) =>
                       /\ st.nickname # <<>> => u.nickname = st.nickname
                       /\ st.sex # <<>> => u.gender = st.sex
                       /\ st.nickname = <<>> => u.nickname = FallbackNickname
                       /\ st.sex = <<>> => u.gender = Unknown
                 /\ (f.member_failed /\ f.stranger_failed) =>
                       /\ u.nickname = FallbackNickname
                       /\ u.gender = Unknown

\* the member lookup failed and the stranger record gave both fields
C15_Witness ==
    \E i \in Invocations :
       LET f == frames[i]
       IN  /\ f.pc = "parse"
           /\ f.member_failed
           /\ ~f.stranger_failed
           /\ f.user_info.nickname = <<"S">>
           /\ f.user_info.gender = <<"f", "e", "m", "a", "l", "e">>

----------------------------------------------------------------------------
(* Detection of _has_api_error_pattern *)

\* signature sig occurs in text: its words in order, in either case, with
\* nothing but whitespace between two of them
Occurs(sig, text) ==
    \E pos \in [DOMAIN sig -> DOMAIN text] :
       /\ \A j \in DOMAIN sig : Lower(text[pos[j]]) \in sig[j]
       /\ \A j \in DOMAIN sig :
             j < Len(sig) =>
                /\ pos[j] < pos[j + 1]
                /\ \A k \in (pos[j] + 1)..(pos[j + 1] - 1) :
                      text[k] \in Whitespace

\* part occurs in text as a run of consecutive words
ContainsRun(part, text) ==
    \E k \in 0..(Len(text) - Len(part)) :
       SubSeq(text, k + 1, k + Len(part)) = part

\* C16: _has_api_error_pattern answers true exactly for a non-empty text that
\* holds both 'AstrBot' and '请求失败', or in which one of the signatures
\* occurs in either case; so it is true for every text holding
\* 'Error code: 503' and false for None and for the empty text.
C16_ErrorPatternExact ==
    \A i \in Invocations :
       LET f == frames[i]
           t == f.text.text
       IN  f.pc = "match_return" =>
              /\ f.is_error <=>
                    /\ ~f.text.is_none
                    /\ t # <<>>
                    /\ \/ /\ \E k \in DOMAIN t : t[k] = "AstrBot"
                          /\ \E k \in DOMAIN t : t[k] = "qingqiu_shibai"
                       \/ \E sig \in error_patterns : Occurs(sig, t)
              /\ ContainsRun(<<"Error", " ", "code:", " ", "503">>, t) =>
                    f.is_error
              /\ (f.text.is_none \/ t = <<>>) => ~f.is_error

\* a text with 'Error code: 503' between other words was answered true
C16_Witness ==
    \E i \in Invocations :
       /\ frames[i].pc = "match_return"
       /\ frames[i].is_error
       /\ frames[i].text.text =
             <<"ok", " ", "Error", " ", "code:", " ", "503", " ", "ok">>

----------------------------------------------------------------------------
(* The end of get_msg_contexts at a page that is missing *)

\* the third attempt of a page failed: the page is missing
ThirdFailure(f, g) ==
    /\ f.pc = "fetch_call"
    /\ f.attempt = MAX_RETRIES - 1
    /\ g.rpc_failures = f.rpc_failures + 1

\* C17: after the third failed attempt of a page, and after an answer with
\* no messages, get_msg_contexts makes no further request and returns the
\* turns and the round count it held before that page.
C17_MissingPageEndsFetch ==
    [][\A i \in Invocations :
          LET f == frames[i]
              g == frames'[i]
          IN  /\ ThirdFailure(f, g) =>
                    /\ g.pc = "fetch_page"
                    /\ g.round_messages = <<>>
                    /\ g.contexts = f.contexts
                    /\ g.query_rounds = f.query_rounds
              /\ (f.pc = "fetch_page" /\ f.round_messages = <<>>) =>
                    /\ g.pc = "fetch_return"
                    /\ g.contexts = f.contexts
                    /\ g.query_rounds = f.query_rounds
                    /\ g.rpc_calls = f.rpc_calls
                    /\ g.requested = f.requested
              /\ f.pc = "fetch_return" =>
                    /\ g.rpc_calls = f.rpc_calls
                    /\ g.contexts = f.contexts
                    /\ g.query_rounds = f.query_rounds]_vars

\* a page failed three times after one page had been consumed, and the fetch
\* returned that page's turn and one round
C17_Witness ==
    \E i \in Invocations :
       LET f == frames[i]
       IN  /\ f.pc = "fetch_return"
           /\ f.page_trace = FailedPageTrace(f.payloads)
           /\ f.rpc_failures = MAX_RETRIES
           /\ f.rpc_calls = MAX_RETRIES + 1
           /\ f.query_rounds = 1
           /\ Len(f.contexts) = 1

----------------------------------------------------------------------------
(* The waits of get_llm_respond *)

\* the wait between two attempts: llm_retry_delay, 2 when not configured,
\* and no wait for a negative value
ConfiguredDelay ==
    IF "llm_retry_delay" \notin DOMAIN conf THEN 2
    ELSE IF conf["llm_retry_delay"] >= 0 THEN conf["llm_retry_delay"]
    ELSE 0

\* C18: in get_llm_respond calls and waits alternate, starting with a call:
\* each wait has the configured length and follows an attempt that failed
\* (exception, empty text or error text) and was not the last; a failed
\* attempt is followed by a wait unless it was the last of the budget, and
\* then the function returns; no exception of the LLM call leaves the
\* function.
C18_OneWaitBetweenAttempts ==
    \A i \in Invocations :
       LET f == frames[i]
           t == f.llm_trace
           n == Len(t)
       IN  /\ \A k \in DOMAIN t :
                 IF k % 2 = 1
                 THEN t[k].op = "call"
                 ELSE /\ t[k].op = "sleep"
                      /\ t[k].delay = ConfiguredDelay
                      /\ ~Usable(t[k - 1].response)
                      /\ k \div 2 < RetryBudget
           /\ (n > 0 /\ t[n].op = "sleep") => f.pc = "llm_call"
           /\ (n > 0 /\ t[n].op = "call" /\ ~Usable(t[n].response)) =>
                 IF (n + 1) \div 2 < RetryBudget
                 THEN f.pc = "llm_sleep"
                 ELSE f.pc = "llm_return"
           /\ f.pc = "llm_raised" => t = <<>>
           /\ f.pc = "llm_return" => t[n].op = "call"

\* three calls that all threw, a wait of 1 after the first and the second,
\* and the function returned
C18_Witness ==
    \E i \in Invocations :
       /\ frames[i].pc = "llm_return"
       /\ frames[i].llm_trace =
             <<LlmCallEvent(LlmThrow), LlmSleepEvent(1),
               LlmCallEvent(LlmThrow), LlmSleepEvent(1),
               LlmCallEvent(LlmThrow)>>

----------------------------------------------------------------------------
(* The order of the stages of get_portrayal *)

\* the reply with this tag has been emitted
Emitted(f, tag) == \E k \in DOMAIN f.replies : f.replies[k].tag = tag

\* C19: the stages of the command run one after the other. A history request
\* is made only after both profile lookups and after the fetch notice; an LLM
\* call only after get_msg_contexts has returned and after the analysis
\* notice; a render request only after get_llm_respond has returned a text;
\* and a stage makes no call once the next stage has begun.
C19_StagesInSequence ==
    \A i \in Invocations :
       LET f == frames[i]
       IN  /\ (f.rpc_calls > 0 \/ f.requested # <<>>) =>
                 /\ f.lookups = 2
                 /\ Emitted(f, "notice_fetch")
           /\ f.llm_trace # <<>> =>
                 /\ f.fetched
                 /\ f.rpc_calls > 0
                 /\ Emitted(f, "notice_analysis")
                 /\ ~InFetch(f)
           /\ (f.render_requests > 0 \/ f.render_outcome # "") =>
                 /\ f.llm_trace # <<>>
                 /\ ~f.llm_respond.is_none
                 /\ f.llm_respond =
                       f.llm_trace[Len(f.llm_trace)].response.completion_text
                 /\ f.pc = "done"
           /\ f.pc \in {"target_info", "member_lookup", "stranger_lookup"} =>
                 f.rpc_calls = 0 /\ f.replies = <<>>
           /\ \A j, k \in DOMAIN f.replies :
                 (f.replies[j].tag = "notice_fetch"
                    /\ f.replies[k].tag = "notice_analysis") => j < k

\* a run through all four stages: both lookups, a history request, an LLM
\* call and the image, with the two notices before the image
C19_Witness ==
    \E i \in Invocations :
       LET f == frames[i]
       IN  /\ f.pc = "done"
           /\ f.lookups = 2
           /\ f.rpc_calls > 0
           /\ f.llm_trace # <<>>
           /\ f.render_outcome = "image"
           /\ f.replies = <<PlainResult("notice_fetch", <<>>),
                            PlainResult("notice_analysis", <<>>),
                            ImageResult>>

----------------------------------------------------------------------------
(* Two invocations of get_portrayal, for two users of one group, interleaved
   at every await. The gateway, the LLM and the renderer answer a request by
   what the request holds, so that an invocation's answers do not depend on
   when it runs. *)

\* the configuration of the plugin
TwoConf ==
    [max_msg_count |-> 3, per_msg_count |-> 2, max_query_rounds |-> 3,
     llm_max_retries |-> 2, llm_retry_delay |-> 1,
     system_prompt_template |-> "ok"]

\* the two commands: the sender about themselves, and about the user they
\* mention, with 2 rounds
TwoEvent(i) ==
    IF i = 1
    THEN [platform |-> "aiocqhttp", group_id |-> <<"7">>, self_id |-> <<"9">>,
          ats |-> <<>>, sender_id |-> <<"1">>, end_parm |-> <<"h">>]
    ELSE [platform |-> "aiocqhttp", group_id |-> <<"7">>, self_id |-> <<"9">>,
          ats |-> <<<<"9">>, <<"2">>>>, sender_id |-> <<"1">>,
          end_parm |-> <<"2">>]

\* the history of the group: the page that each cursor gives
GroupHistory(message_seq) ==
    IF message_seq = 0
    THEN <<Msg(TargetUid, 2, <<TextSeg(<<"b">>)>>, 0),
           Msg(OtherUid, 2, <<TextSeg(<<"c">>)>>, 0)>>
    ELSE IF message_seq = 2
    THEN <<Msg(OtherUid, 1, <<TextSeg(<<"a">>)>>, 1),
           Msg(TargetUid, 1, <<TextSeg(<<"a">>)>>, 0)>>
    ELSE <<>>

\* the gateway: the first attempt for cursor 2 times out
TwoRpcResponse(f) ==
    IF f.payloads.message_seq = 2 /\ f.attempt = 0
    THEN [kind |-> "throw", has_messages |-> FALSE, messages |-> <<>>]
    ELSE [kind |-> "ok", has_messages |-> TRUE,
          messages |-> GroupHistory(f.payloads.message_seq)]

\* the LLM: for user 1 an error text first; then the portrait of the user
TwoLlmResponse(f) ==
    IF f.target_id = <<"1">> /\ f.llm_attempt = 1
    THEN LlmReturn(Text(<<"Request", " ", "timed", " ", "out">>))
    ELSE LlmReturn(Text(<<"portrait">> \o f.target_id))

\* the lookups: user 1 is a member with a card, the member lookup of user 2
\* fails and the stranger lookup answers
TwoMemberInfos(f) ==
    IF f.target_id = <<"1">>
    THEN {[card |-> <<"C">>, nickname |-> <<"M">>, sex |-> <<>>]}
    ELSE {}

TwoStrangerInfos(f) ==
    {[card |-> <<>>, nickname |-> <<"S">> \o f.target_id, sex |-> <<>>]}

\* the renderer: an image for the portrait of user 1, none for user 2
TwoRenderOutcome(f) ==
    IF f.target_id = <<"1">> THEN "image" ELSE "no_image"

\* one of the commands alone, or both
InitTwo ==
    /\ conf = TwoConf
    /\ \E started \in (SUBSET Invocations) \ {{}} :
         frames = [i \in Invocations |->
                     IF i \in started THEN StartFrame(TwoEvent(i))
                     ELSE IdleFrame]

TwoGetGroupMemberInfo(i) ==
    GetGroupMemberInfoWith(i, TwoMemberInfos(frames[i]),
                           TwoMemberInfos(frames[i]) = {})

TwoGetStrangerInfo(i) ==
    GetStrangerInfoWith(i, TwoStrangerInfos(frames[i]), FALSE)

TwoFetchCall(i) == FetchCallWith(i, {TwoRpcResponse(frames[i])})

TwoLlmCall(i) == LlmCallWith(i, {TwoLlmResponse(frames[i])})

TwoRenderPortrayal(i) ==
    RenderPortrayalWith(i, {TwoRenderOutcome(frames[i])})

NextTwo ==
    \E i \in Invocations :
       \/ PortrayalStart(i)
       \/ GetTargetInfoEnter(i)
       \/ TwoGetGroupMemberInfo(i)
       \/ TwoGetStrangerInfo(i)
       \/ ParseRounds(i)
       \/ GetMsgContextsEnter(i)
       \/ FetchWhile(i)
       \/ TwoFetchCall(i)
       \/ FetchSleep(i)
       \/ FetchPage(i)
       \/ AfterFetch(i)
       \/ GetLlmRespondEnter(i)
       \/ TwoLlmCall(i)
       \/ LlmSleep(i)
       \/ AfterLlm(i)
       \/ TwoRenderPortrayal(i)

SpecTwo == InitTwo /\ [][NextTwo]_vars

----------------------------------------------------------------------------
(* Independence of two invocations *)

UserTurn(content) == [role |-> "user", content |-> content]

\* what an invocation ends with: its turns, its round count and its replies
Outcome(f) ==
    [contexts |-> f.contexts, query_rounds |-> f.query_rounds,
     replies |-> f.replies]

\* what each command ends with when it runs alone
AloneOutcome(i) ==
    IF i = 1
    THEN [contexts |-> <<UserTurn(<<"b">>), UserTurn(<<"a">>)>>,
          query_rounds |-> 2,
          replies |-> <<PlainResult("notice_fetch", <<>>),
                        PlainResult("notice_analysis", <<>>),
                        ImageResult>>]
    ELSE [contexts |-> <<UserTurn(<<"c">>),
                         UserTurn(TimestampPrefix(1) \o <<"a">>)>>,
          query_rounds |-> 2,
          replies |-> <<PlainResult("notice_fetch", <<>>),
                        PlainResult("notice_analysis", <<>>),
                        PlainResult("render_failed",
                                    RenderFailedText(<<"portrait", "2">>))>>]

\* the other invocation
Other(i) == 3 - i

\* every invocation that has ended, alone or beside the other one, ended
\* with the outcome of its command
SameAsAlone ==
    \A i \in Invocations :
       frames[i].pc = "done" => Outcome(frames[i]) = AloneOutcome(i)

\* a step changes the locals of one invocation only, and never self.conf
LocalSteps ==
    /\ conf' = conf
    /\ \A i \in Invocations :
          frames'[i] # frames[i] => frames'[Other(i)] = frames[Other(i)]

\* C20: two invocations of get_portrayal for two users, interleaved at every
\* await, each end with the turns, the round count and the replies they end
\* with when run alone; a step touches the locals of one invocation only and
\* self.conf is never written.
C20_InvocationsIndependent ==
    /\ []SameAsAlone
    /\ [][LocalSteps]_vars

\* both commands were started and both invocations have ended, after four
\* and three history requests
C20_Witness ==
    /\ frames[1].pc = "done"
    /\ frames[2].pc = "done"
    /\ Outcome(frames[1]) = AloneOutcome(1)
    /\ Outcome(frames[2]) = AloneOutcome(2)
    /\ frames[1].rpc_calls = 4
    /\ frames[2].rpc_calls = 3

=============================================================================
